---- MODULE Spec2Model ----
(***************************************************************************)
(* KPIChatbot: the connection registry (DatabaseConfigService), the        *)
(* natural-language-to-SQL translator (generateSQLFromQuery), the KPI      *)
(* suggester (generateKPISuggestions) and the routes with their mock       *)
(* translator and results (generateMockSQL, generateMockResults).          *)
(*                                                                         *)
(* The registry is a singleton holding `config` in memory and mirroring it *)
(* into a JSON file.  JavaScript runs every synchronous block atomically;  *)
(* addConnection is async and yields at its two awaits (testConnection,    *)
(* extractSchema), so several addConnection calls can be in flight.        *)
(***************************************************************************)
EXTENDS Integers, Sequences, FiniteSets, Bags, TLC

\* ------------------------------------------------------------------ bounds
\* addConnection calls that may be in flight (awaiting) at the same time
MaxCalls == 2
\* writeFileSync failures in one run
MaxSaveFailures == 1

\* ------------------------------------------------------------- value sets
Null == "null"

\* Connection ids a caller may pass.  "a" is an ordinary id.
\* "constructor" stands for the names every object inherits from
\* Object.prototype (constructor, toString, valueOf, hasOwnProperty, ...):
\* config.connections is a plain object, so connections["constructor"] is a
\* function, hence truthy, although no record has that key.  "__proto__"
\* is the accessor of Object.prototype: reading it gives the prototype
\* object (truthy), assigning an object to it replaces the prototype and
\* creates no key.
Ids == {"default", "a", "constructor", "__proto__"}
InheritedKeys == {"constructor", "__proto__"}

\* connectionParams (host, port, database, username, password) as one token
DefaultParams == "localhost:5432/postgres"
Params == {"db1"}
\* what extractSchema can return
Schemas == {"s1"}
\* new Date().toISOString()
Now == "ts"

VARIABLES
  config,   \* this.config: [currentConnection, connections]
  proto,    \* the prototype object of this.config.connections
  disk,     \* the file at CONFIG_PATH
  calls,    \* bag of addConnection calls suspended at an await
  ret,      \* what the last finished registry call returned
  nfail,    \* number of failed writes so far
  sql,      \* the generateSQLFromQuery call
  sessions, \* the sessions map of the routes, keyed by username
  reply,    \* the last response a route sent (res.json)
  kpi,      \* the generateKPISuggestions call
  hist,     \* the last invocation of each fallback translator
  seen,     \* what each user last did to its connection: connect or logout
  db        \* the testConnection or extractSchema call and its pool

regvars == <<config, proto, disk, calls, ret, nfail>>
othervars == <<sessions, reply, kpi, hist, seen, db>>
vars ==
  <<config, proto, disk, calls, ret, nfail, sql, sessions, reply, kpi, hist, seen, db>>

\* ------------------------------------------------------------ the records
DefaultRecord ==
  [params |-> DefaultParams, isActive |-> FALSE, schema |-> Null,
   lastConnected |-> Null]

DefaultConfig ==
  [currentConnection |-> Null, connections |-> [k \in {"default"} |-> DefaultRecord]]

ObjectPrototype == [kind |-> "Object", rec |-> DefaultRecord]

\* a return value: res is the outcome, schema the schema addConnection
\* returns with success, fallback whether removeConnection took line 278
Return(op, id, res, schema, fallback) ==
  [op |-> op, id |-> id, res |-> res, schema |-> schema, fallback |-> fallback]

NoReturn == Return("none", "default", "none", Null, FALSE)

\* Object.keys(this.config.connections): the own keys
Keys(c) == DOMAIN c.connections

\* the records whose isActive is true
ActiveKeys(c) == {k \in Keys(c) : c.connections[k].isActive}

\* truthiness of this.config.connections[id]: an own record, or a value
\* found on the prototype chain
Has(c, id) == id \in Keys(c) \/ id \in InheritedKeys

\* ---------------------------------------------------------- the JSON file
\* JSON.stringify(this.config): own enumerable properties only, so nothing
\* reached through the prototype of connections is written
Stringify(c) == [kind |-> "json", data |-> c]

NoFile == [kind |-> "unreadable", data |-> DefaultConfig]

\* fs.writeFileSync either replaces the file by the new text, or throws and
\* (lines 68-70) the error is rethrown; the outcomes of saving c
saveConfig(c) ==
  {[disk |-> Stringify(c), threw |-> FALSE]}
  \cup (IF nfail < MaxSaveFailures THEN {[disk |-> disk, threw |-> TRUE]} ELSE {})

\* readFileSync + JSON.parse, or the default configuration when either throws
loadConfig(d) == IF d.kind = "json" THEN d.data ELSE DefaultConfig

\* ------------------------------------------------- the translator's texts
\* The text the generation service returns is a sequence of tokens; each
\* token stands for the characters it spells, and no two adjacent tokens
\* spell a fence or the word SELECT between them.
\* Fence: the three backquotes of a markdown code fence
Fence == "[fence]"
Alphabet == {"SELECT", "select", " ", Fence, "sql", "DROP"}

\* longest service text, in tokens
MaxLen == 4

Texts == UNION {[1..n -> Alphabet] : n \in 0..MaxLen}

\* the token spells SELECT in some case (the regular expressions have flag i)
IsSelect(tok) == tok \in {"SELECT", "select"}
\* the token contains the letter s or S: /[^S]/i excludes both cases
HasS(tok) == tok \in {"SELECT", "select", "sql"}
IsSpace(tok) == tok = " "

\* the data-mutating keywords among the tokens
Mutating == {"DROP"}

Range(t) == {t[i] : i \in 1..Len(t)}

RECURSIVE TrimLeft(_)
TrimLeft(t) == IF t # <<>> /\ IsSpace(Head(t)) THEN TrimLeft(Tail(t)) ELSE t

RECURSIVE TrimRight(_)
TrimRight(t) ==
  IF t # <<>> /\ IsSpace(t[Len(t)]) THEN TrimRight(SubSeq(t, 1, Len(t) - 1)) ELSE t

\* String.prototype.trim
Trim(t) == TrimRight(TrimLeft(t))

\* cleanSQL.match(/```(?:sql)?\s*(SELECT[\s\S]*?)\s*```/i) tried at the fence
\* at position i: the optional tag, the spaces, the keyword at k, then the
\* shortest text up to the spaces before the next fence at n
FenceAt(t, i) ==
  LET j == IF i + 1 <= Len(t) /\ t[i + 1] = "sql" THEN i + 2 ELSE i + 1
      k == IF \E x \in j..Len(t) : ~IsSpace(t[x])
           THEN CHOOSE x \in j..Len(t) :
                  ~IsSpace(t[x]) /\ \A y \in j..(x - 1) : IsSpace(t[y])
           ELSE Len(t) + 1
      closes == {x \in (k + 1)..Len(t) : t[x] = Fence}
      n == CHOOSE x \in closes : \A y \in closes : x <= y
      found == t[i] = Fence /\ k <= Len(t) /\ IsSelect(t[k]) /\ closes # {}
  IN [found |-> found,
      group |-> IF found THEN TrimRight(SubSeq(t, k, n - 1)) ELSE <<>>]

\* the leftmost match of the fence expression, if any
FenceMatch(t) ==
  LET starts == {i \in 1..Len(t) : FenceAt(t, i).found}
  IN IF starts = {}
     THEN [found |-> FALSE, group |-> <<>>]
     ELSE FenceAt(t, CHOOSE i \in starts : \A y \in starts : i <= y)

\* lines 198-203
StripFence(t) ==
  IF Fence \in Range(t) /\ FenceMatch(t).found THEN Trim(FenceMatch(t).group) ELSE t

\* line 206, cleanSQL.replace(/^[^S]*SELECT/i, 'SELECT'): the expression
\* matches when the first token with an s is the keyword
ReplaceLeading(t) ==
  LET withS == {i \in 1..Len(t) : HasS(t[i])}
      p == CHOOSE i \in withS : \A y \in withS : i <= y
  IN IF withS # {} /\ IsSelect(t[p])
     THEN <<"SELECT">> \o SubSeq(t, p + 1, Len(t))
     ELSE t

\* lines 191-209: what the primary tier returns for the service's text
CleanSQL(raw) == ReplaceLeading(StripFence(Trim(raw)))

\* ----------------------------------------------------- the fallback tier
\* a question is the set of the rule keywords its lowercased text contains
Questions ==
  {{}, {"total", "loan"}, {"customer", "count"}, {"transaction"}, {"loan", "type"},
   {"salary"}, {"transaction", "volume"}, {"payment"}, {"total", "loan", "type"}}

Table(name, cols) == [name |-> name, columns |-> cols]

\* schema.tables as the sequence of its entries in Object.keys order;
\* isNull: the caller passed null (no active connection)
SqlSchemas ==
  {[isNull |-> TRUE, tables |-> <<>>],
   [isNull |-> FALSE, tables |-> <<>>],
   [isNull |-> FALSE, tables |-> <<Table("loans", <<"id", "loan_amount", "loan_type">>)>>],
   [isNull |-> FALSE, tables |-> <<Table("employees", <<"id">>),
                                   Table("payments", <<"id", "amount_paid">>)>>],
   [isNull |-> FALSE,
    tables |-> <<Table("accounts", <<"id", "owner", "branch", "balance", "opened", "closed">>),
                 Table("customers", <<"id">>)>>],
   [isNull |-> FALSE, tables |-> <<Table("audit", <<>>), Table("loans", <<"id">>)>>]}

\* the table names taken from the registry's active connection, which has
\* the tables of s when a connection is active and none otherwise
TableNamesOfActive(s) ==
  IF config.currentConnection = Null THEN {} ELSE {s.tables[i].name : i \in 1..Len(s.tables)}

\* the tests tables.includes(name) of lines 228-246 left out
TableNamesUntested(s) ==
  {s.tables[i].name : i \in 1..Len(s.tables)} \cup {"loans", "customers", "payments"}

\* tables.includes(name), lines 228-246
TableNames(s) == {s.tables[i].name : i \in 1..Len(s.tables)}

Thrown(kind) == [threw |-> kind, value |-> <<>>]
Returned(text) == [threw |-> "none", value |-> text]

\* lines 218-257
generateFallbackSQL(q, s) ==
  IF s.isNull THEN Thrown("TypeError")
  ELSE IF Len(s.tables) = 0 THEN Thrown("Error")
  ELSE IF {"total", "loan"} \subseteq q /\ "loans" \in TableNames(s)
  THEN Returned(<<"SELECT", "SUM(loan_amount) as total_loan_amount, COUNT(*) as total_loans",
                  "FROM", "loans", ";">>)
  ELSE IF {"customer", "count"} \subseteq q /\ "customers" \in TableNames(s)
  THEN Returned(<<"SELECT", "COUNT(*) as customer_count", "FROM", "customers", ";">>)
  ELSE IF ("payment" \in q \/ "transaction" \in q) /\ "payments" \in TableNames(s)
  THEN Returned(<<"SELECT", "SUM(amount_paid) as total_payments, COUNT(*) as payment_count",
                  "FROM", "payments", ";">>)
  ELSE IF {"loan", "type"} \subseteq q /\ "loans" \in TableNames(s)
  THEN Returned(<<"SELECT", "loan_type, COUNT(*) as loan_count, AVG(loan_amount) as avg_amount",
                  "FROM", "loans", "GROUP BY", "loan_type", "ORDER BY", "loan_count DESC", ";">>)
  ELSE LET first == s.tables[1]
           n == IF Len(first.columns) < 5 THEN Len(first.columns) ELSE 5
       IN Returned(<<"SELECT">> \o SubSeq(first.columns, 1, n)
                   \o <<"FROM", first.name, "LIMIT", "10", ";">>)

NoCall ==
  [pc |-> "idle", query |-> {}, schema |-> [isNull |-> TRUE, tables |-> <<>>],
   text |-> <<>>, tier |-> "none", result |-> <<>>, error |-> "none"]

\* ------------------------------------------------------------ the routes
\* ADMIN_ACCOUNTS: the sector of each account; a token carries the username
\* and the sector, and sessions is keyed by the username
ADMIN_ACCOUNTS ==
  [u \in {"admin@bank", "admin@finance", "admin@ithr"} |->
     IF u = "admin@bank" THEN "bank" ELSE IF u = "admin@finance" THEN "finance" ELSE "ithr"]

Users == DOMAIN ADMIN_ACCOUNTS

NullSchema == [isNull |-> TRUE, tables |-> <<>>]

\* the schema /api/connect-db stores for every connection, lines 124-152
MockSchema ==
  [isNull |-> FALSE,
   tables |-> <<Table("employees", <<"id", "name", "department", "salary", "hire_date">>),
                Table("departments", <<"id", "name", "budget">>),
                Table("transactions",
                      <<"id", "amount", "transaction_date", "account_id", "type">>)>>]

\* sessions[sessionKey] is undefined, or the object of lines 122-153
NoSession == [connected |-> FALSE, db_connection |-> Null, schema |-> NullSchema]
Session(p) == [connected |-> TRUE, db_connection |-> p, schema |-> MockSchema]

\* a query of the endpoint is the set of the keywords generateMockSQL and
\* generateMockResults look for that its lowercased text contains
MockKeywords == {"salary", "employee", "transaction", "volume", "department", "count"}
MockQuestions == SUBSET MockKeywords

\* the conditions of the if chains of lines 291-297 and 305-380
MockBranch(q) ==
  IF "salary" \in q \/ "employee" \in q THEN "salary"
  ELSE IF "transaction" \in q \/ "volume" \in q THEN "transaction"
  ELSE IF "department" \in q \/ "count" \in q THEN "department"
  ELSE "default"

\* lines 288-300; the sector is not read
generateMockSQL(q, sector) ==
  IF MockBranch(q) = "salary"
  THEN <<"SELECT", "department, AVG(salary) as avg_salary, COUNT(*) as employee_count",
         "FROM", "employees", "GROUP BY", "department", "ORDER BY", "avg_salary DESC",
         "LIMIT", "10", ";">>
  ELSE IF MockBranch(q) = "transaction"
  THEN <<"SELECT",
         "DATE(transaction_date) as date, SUM(amount) as total_amount, COUNT(*) as transaction_count",
         "FROM", "transactions", "WHERE", "transaction_date >= NOW() - INTERVAL '30 days'",
         "GROUP BY", "DATE(transaction_date)", "ORDER BY", "date", ";">>
  ELSE IF MockBranch(q) = "department"
  THEN <<"SELECT", "department, COUNT(*) as employee_count", "FROM", "employees",
         "GROUP BY", "department", "ORDER BY", "employee_count DESC", ";">>
  ELSE <<"SELECT", "*", "FROM", "employees", "LIMIT", "10", ";">>

\* the object generateMockResults returns; execution_time in milliseconds
Envelope(rows, kind, points, x, y, cols, n, ms) ==
  [table_data |-> rows,
   chart_data |-> [type |-> kind, data |-> points, xAxis |-> x, yAxis |-> y],
   columns |-> cols, row_count |-> n, execution_time |-> ms]

\* lines 306-329
SalaryResults ==
  Envelope(<<[department |-> "Engineering", avg_salary |-> 95000, employee_count |-> 25],
             [department |-> "Sales", avg_salary |-> 75000, employee_count |-> 18],
             [department |-> "Marketing", avg_salary |-> 68000, employee_count |-> 12],
             [department |-> "HR", avg_salary |-> 62000, employee_count |-> 8],
             [department |-> "Finance", avg_salary |-> 78000, employee_count |-> 10]>>,
           "bar",
           <<[department |-> "Engineering", avg_salary |-> 95000],
             [department |-> "Sales", avg_salary |-> 75000],
             [department |-> "Marketing", avg_salary |-> 68000],
             [department |-> "HR", avg_salary |-> 62000],
             [department |-> "Finance", avg_salary |-> 78000]>>,
           "department", "avg_salary",
           <<"department", "avg_salary", "employee_count">>, 5, 150)

\* lines 331-354
TransactionResults ==
  Envelope(<<[date |-> "2024-01-15", total_amount |-> 125000, transaction_count |-> 45],
             [date |-> "2024-01-16", total_amount |-> 138000, transaction_count |-> 52],
             [date |-> "2024-01-17", total_amount |-> 142000, transaction_count |-> 48],
             [date |-> "2024-01-18", total_amount |-> 159000, transaction_count |-> 61],
             [date |-> "2024-01-19", total_amount |-> 134000, transaction_count |-> 43]>>,
           "line",
           <<[date |-> "2024-01-15", total_amount |-> 125000],
             [date |-> "2024-01-16", total_amount |-> 138000],
             [date |-> "2024-01-17", total_amount |-> 142000],
             [date |-> "2024-01-18", total_amount |-> 159000],
             [date |-> "2024-01-19", total_amount |-> 134000]>>,
           "date", "total_amount",
           <<"date", "total_amount", "transaction_count">>, 5, 120)

\* lines 356-379
DepartmentResults ==
  Envelope(<<[department |-> "Engineering", employee_count |-> 25],
             [department |-> "Sales", employee_count |-> 18],
             [department |-> "Marketing", employee_count |-> 12],
             [department |-> "Finance", employee_count |-> 10],
             [department |-> "HR", employee_count |-> 8]>>,
           "pie",
           <<[department |-> "Engineering", employee_count |-> 25],
             [department |-> "Sales", employee_count |-> 18],
             [department |-> "Marketing", employee_count |-> 12],
             [department |-> "Finance", employee_count |-> 10],
             [department |-> "HR", employee_count |-> 8]>>,
           "department", "employee_count",
           <<"department", "employee_count">>, 5, 80)

\* lines 381-400
DefaultResults ==
  Envelope(<<[id |-> 1, name |-> "John Doe", department |-> "Engineering", salary |-> 95000],
             [id |-> 2, name |-> "Jane Smith", department |-> "Sales", salary |-> 75000],
             [id |-> 3, name |-> "Bob Johnson", department |-> "Marketing", salary |-> 68000]>>,
           "bar",
           <<[name |-> "John Doe", salary |-> 95000],
             [name |-> "Jane Smith", salary |-> 75000],
             [name |-> "Bob Johnson", salary |-> 68000]>>,
           "name", "salary",
           <<"id", "name", "department", "salary">>, 3, 50)

\* generateMockResults whose third branch keeps the chart of the first
generateMockResultsCopiedChart(q, sector) ==
  IF MockBranch(q) = "salary" THEN SalaryResults
  ELSE IF MockBranch(q) = "transaction" THEN TransactionResults
  ELSE IF MockBranch(q) = "department"
  THEN [DepartmentResults EXCEPT !.chart_data = SalaryResults.chart_data]
  ELSE DefaultResults

\* lines 302-402; the sector is not read
generateMockResults(q, sector) ==
  IF MockBranch(q) = "salary" THEN SalaryResults
  ELSE IF MockBranch(q) = "transaction" THEN TransactionResults
  ELSE IF MockBranch(q) = "department" THEN DepartmentResults
  ELSE DefaultResults

NoResults == Envelope(<<>>, "none", <<>>, "", "", <<>>, 0, 0)

\* the suggestions of the routes' generateKPISuggestions(sector), by id:
\* lines 217-286
RouteSuggestions(sector) ==
  IF sector = "bank" THEN <<"account_balance", "transaction_volume", "loan_performance">>
  ELSE IF sector = "finance" THEN <<"revenue_trends", "client_portfolio", "profit_margins">>
  ELSE IF sector = "ithr" THEN <<"employee_count", "salary_analysis", "performance_ratings">>
  ELSE <<>>

\* a response: res.status(...).json(...) or res.json(...)
Response(route, user, status, message, schema, kpis, query, text, results) ==
  [route |-> route, user |-> user, status |-> status, message |-> message,
   schema |-> schema, suggested_kpis |-> kpis, query |-> query, sql_query |-> text,
   results |-> results]

Status(route, user, status, message) ==
  Response(route, user, status, message, NullSchema, <<>>, {}, <<>>, NoResults)

NoResponse == Status("none", "admin@bank", 0, "")

\* ------------------------------------------------------ the KPI suggester
\* the sectors of the accounts, and one no list is written for
Sectors == {"bank", "finance", "ithr", "other"}

\* the schemas handed to the suggester
KpiSchemas ==
  {[isNull |-> FALSE, tables |-> <<>>],
   [isNull |-> FALSE, tables |-> <<Table("loans", <<"id", "loan_amount", "loan_type">>)>>]}

\* longest array the service answers with
MaxItems == 9

\* an element of the array: its id, and whether id, name, description,
\* query_template and category are all present and not empty
Item(id, complete) == [id |-> id, complete |-> complete]
ItemAlphabet == {Item("x", TRUE), Item("y", TRUE), Item("x", FALSE)}
ItemArrays == UNION {[1..n -> ItemAlphabet] : n \in 0..MaxItems}

\* response.text: nothing, a text JSON.parse rejects, the JSON of a value
\* that is not an array, of an array with a null element, or of an array of
\* objects
TextKinds == {"none", "invalid", "object", "nullElement", "array"}

Take(s, n) == SubSeq(s, 1, IF Len(s) < n THEN Len(s) ELSE n)

IdsOf(items) == [i \in 1..Len(items) |-> items[i].id]

\* lines 82-156, by id
getFallbackSuggestions(sector) ==
  IF sector = "bank" THEN <<"loan_approval_rate", "account_growth", "transaction_volume">>
  ELSE IF sector = "ithr" THEN <<"employee_turnover", "hiring_metrics", "performance_ratings">>
  ELSE <<"revenue_growth", "profit_margins", "client_portfolio_value">>

\* lines 59-79: what the call returns for the service's text
ParseSuggestions(kind, items, sector) ==
  IF kind = "array"
  THEN [tier |-> "primary", result |-> Take(IdsOf(SelectSeq(items, LAMBDA i : i.complete)), 8)]
  ELSE [tier |-> "fallback", result |-> getFallbackSuggestions(sector)]

NoKpiCall ==
  [pc |-> "idle", schema |-> NullSchema, sector |-> "bank", text |-> "none",
   items |-> <<>>, tier |-> "none", result |-> <<>>]

\* an invocation of a fallback translator: its arguments and what it gave
NoInvocation == [called |-> FALSE, args |-> <<>>, result |-> Returned(<<>>)]
Invocation(args, result) == [called |-> TRUE, args |-> args, result |-> result]

\* ----------------------------------------------------------- the database
\* a row of information_schema.columns, in ordinal position order within
\* its table; column_default, character_maximum_length, numeric_precision
\* and numeric_scale are copied like data_type and are left out
Column(name, type, nullable) ==
  [column_name |-> name, data_type |-> type, is_nullable |-> nullable]

\* a table of the catalog: its database schema, its name and its columns
CatalogTable(schema, name, cols) == [table_schema |-> schema, table_name |-> name, columns |-> cols]

\* the catalogs of the databases a call connects to: none or two tables of
\* the schema public, and two schemas with a table of the same name
Catalogs ==
  {{},
   {CatalogTable("public", "accounts",
                 <<Column("id", "integer", "NO"), Column("owner", "text", "YES")>>),
    CatalogTable("public", "loans", <<Column("id", "integer", "NO")>>)},
   {CatalogTable("app", "users",
                 <<Column("id", "integer", "NO"), Column("email", "text", "YES")>>),
    CatalogTable("public", "users", <<Column("id", "uuid", "NO")>>)}}

\* the place of a table name in the collation's order
NameRank(name) == IF name = "accounts" THEN 1 ELSE IF name = "loans" THEN 2 ELSE 3

\* lines 124-133: the results the tables query can have.  Every table once,
\* ORDER BY table_name; rows with the same table_name come in an order the
\* database chooses at each execution
TableRows(cat) ==
  {rows \in [1..Cardinality(cat) -> cat] :
     /\ \A i, j \in 1..Cardinality(cat) : rows[i] = rows[j] => i = j
     /\ \A i, j \in 1..Cardinality(cat) :
          i < j => NameRank(rows[i].table_name) <= NameRank(rows[j].table_name)}

\* lines 141-155: the columns query for the table of a row, WHERE
\* table_name = $1 AND table_schema = $2 ORDER BY ordinal_position
ColumnRows(cat, row) ==
  (CHOOSE tb \in cat :
     tb.table_name = row.table_name /\ tb.table_schema = row.table_schema).columns

\* lines 160-168
MapColumn(col) ==
  [name |-> col.column_name, type |-> col.data_type, nullable |-> col.is_nullable = "YES"]

\* lines 157-169: the element pushed on tables
RawTable(cat, row) ==
  [name |-> row.table_name, schema |-> row.table_schema,
   columns |-> [i \in 1..Len(ColumnRows(cat, row)) |-> MapColumn(ColumnRows(cat, row)[i])]]

\* an object is the sequence of its entries in Object.keys order.
\* obj[e.name] = e: a new key goes last, an existing key keeps its place
\* and takes the new value
PutEntry(obj, e) ==
  IF \E i \in 1..Len(obj) : obj[i].name = e.name
  THEN [obj EXCEPT ![CHOOSE i \in 1..Len(obj) : obj[i].name = e.name] = e]
  ELSE Append(obj, e)

\* lines 178-185: columns[col.name] = {type, nullable, default}
RECURSIVE FormatColumns(_)
FormatColumns(cols) ==
  IF cols = <<>> THEN <<>>
  ELSE PutEntry(FormatColumns(SubSeq(cols, 1, Len(cols) - 1)), cols[Len(cols)])

\* lines 176-187: formattedTables[table.name] = {columns}
RECURSIVE FormatTables(_)
FormatTables(raw) ==
  IF raw = <<>> THEN <<>>
  ELSE PutEntry(FormatTables(SubSeq(raw, 1, Len(raw) - 1)),
                [name |-> raw[Len(raw)].name,
                 columns |-> FormatColumns(raw[Len(raw)].columns)])

\* lines 189-194
Snapshot(raw) ==
  [tables |-> FormatTables(raw), extractedAt |-> Now, totalTables |-> Len(raw),
   rawTables |-> raw]

NoSnapshot == [tables |-> <<>>, extractedAt |-> Null, totalTables |-> 0, rawTables |-> <<>>]

\* before the first call of testConnection or extractSchema there is no
\* pool, no client and no catalog yet
NoDbCall == [op |-> "none", pc |-> "idle"]

\* the call has returned or thrown
Finished(call) == call.pc \in {"idle", "returned", "threw"}

\* ------------------------------------------------------------------- Init
\* the first getInstance() of a fresh deployment: no file, the constructor
\* builds the default configuration and saves it (lines 28-30, 39-63)
RegistryInit ==
  /\ config = loadConfig(NoFile)
  /\ proto = ObjectPrototype
  /\ disk = Stringify(loadConfig(NoFile))
  /\ calls = EmptyBag
  /\ ret = NoReturn
  /\ nfail = 0

\* registerRoutes: sessions = {}, no request served yet
RoutesInit ==
  /\ sessions = [u \in Users |-> NoSession]
  /\ reply = NoResponse
  /\ seen = [u \in Users |-> "never"]

Init ==
  /\ RegistryInit
  /\ sql = NoCall
  /\ RoutesInit
  /\ kpi = NoKpiCall
  /\ hist = [fallback |-> NoInvocation, mock |-> NoInvocation, again |-> FALSE]
  /\ db = NoDbCall

\* ----------------------------------------------------------- the mutations
\* the deactivation that also clears lastConnected
DeactivateAllResets(conns) ==
  [k \in DOMAIN conns |-> [conns[k] EXCEPT !.isActive = FALSE, !.lastConnected = Null]]

\* lines 220-222 and 261-263: Object.keys(...).forEach(key => isActive = false)
DeactivateAll(conns) == [k \in DOMAIN conns |-> [conns[k] EXCEPT !.isActive = FALSE]]

\* an own key assigned
Put(conns, id, rec) == [k \in DOMAIN conns \cup {id} |-> IF k = id THEN rec ELSE conns[k]]

\* delete this.config.connections[id]: own keys only
Delete(conns, id) == [k \in DOMAIN conns \ {id} |-> conns[k]]

\* lines 225-231
NewRecord(p, s) == [params |-> p, isActive |-> TRUE, schema |-> s, lastConnected |-> Now]

\* AddMutation without the deactivation of lines 220-222
AddMutationKeepsActive(c, id, p, s) ==
  [currentConnection |-> id,
   connections |-> IF id = "__proto__" THEN c.connections
                   ELSE Put(c.connections, id, NewRecord(p, s))]

\* addConnection, lines 219-233: the configuration after the mutation.
\* Assigning to the key "__proto__" creates no key.
AddMutation(c, id, p, s) ==
  [currentConnection |-> id,
   connections |-> IF id = "__proto__"
                   THEN DeactivateAll(c.connections)
                   ELSE Put(DeactivateAll(c.connections), id, NewRecord(p, s))]

\* line 225 with connectionId = "__proto__": the new object becomes the
\* prototype of connections
AddProto(pr, id, p, s) ==
  IF id = "__proto__" THEN [kind |-> "record", rec |-> NewRecord(p, s)] ELSE pr

\* setActiveConnection, lines 261-267.  With an inherited key line 266 sets
\* the flag on the object found through the prototype chain, not on a record.
SetActiveMutation(c, id) ==
  [currentConnection |-> id,
   connections |-> IF id \in Keys(c)
                   THEN [DeactivateAll(c.connections) EXCEPT ![id].isActive = TRUE]
                   ELSE DeactivateAll(c.connections)]

\* RemoveMutation without the fallback of lines 277-280
RemoveMutationNoFallback(c, id) ==
  [currentConnection |-> c.currentConnection, connections |-> Delete(c.connections, id)]

\* removeConnection, lines 275-280
RemoveMutation(c, id) ==
  LET conns == Delete(c.connections, id)
  IN IF c.currentConnection = id
     THEN [currentConnection |-> "default",
           connections |-> [conns EXCEPT !["default"].isActive = TRUE]]
     ELSE [currentConnection |-> c.currentConnection, connections |-> conns]

\* the guard of line 273 without its second disjunct
RemoveRefusedAbsentOnly(c, id) == ~Has(c, id)

\* the guard of line 273 with && for ||
RemoveRefusedBoth(c, id) == ~Has(c, id) /\ id = "default"

\* line 273: removeConnection returns false at once
RemoveRefused(c, id) == ~Has(c, id) \/ id = "default"

\* ------------------------------------------------------------- the reads
\* what the service serves of the record connections[id]: an own record, the
\* object found through the prototype chain, or nothing
Lookup(c, pr, id) ==
  IF id \in Keys(c) THEN [kind |-> "record", rec |-> c.connections[id]]
  ELSE IF id = "__proto__" THEN pr
  ELSE IF id \in InheritedKeys THEN [kind |-> "Function", rec |-> DefaultRecord]
  ELSE [kind |-> "null", rec |-> DefaultRecord]

\* lines 243-246
getCurrentConnection(c, pr) ==
  IF c.currentConnection = Null
  THEN [kind |-> "null", rec |-> DefaultRecord]
  ELSE Lookup(c, pr, c.currentConnection)

\* lines 248-251: current?.schema || null
getConnectionSchema(c, pr) ==
  IF getCurrentConnection(c, pr).kind = "record"
  THEN getCurrentConnection(c, pr).rec.schema
  ELSE Null

\* ------------------------------------------------------------- the actions
\* A suspended addConnection call is one entry of the bag from its call to
\* its return: it waits at line 211 for testConnection and, when that
\* resolves true, at line 217 for extractSchema.  Between the two awaits
\* the call reads and writes nothing of the service, so the bag does not
\* record at which of the two it waits.
Call(id, p) == [id |-> id, params |-> p]

\* addConnection that stores the record before the connection is tested
addConnectionWritesFirst(id, p) ==
  /\ BagCardinality(calls) < MaxCalls
  /\ calls' = calls (+) SetToBag({Call(id, p)})
  /\ config' = AddMutation(config, id, p, Null)
  /\ UNCHANGED <<proto, disk, ret, nfail, sql, othervars>>

\* addConnection is called: it runs to `await this.testConnection(...)`
addConnection(id, p) ==
  /\ BagCardinality(calls) < MaxCalls
  /\ calls' = calls (+) SetToBag({Call(id, p)})
  /\ UNCHANGED <<config, proto, disk, ret, nfail, sql, othervars>>

\* testConnection resolves false: lines 211-214
testConnectionFalse(call) ==
  /\ BagIn(call, calls)
  /\ calls' = calls (-) SetToBag({call})
  /\ ret' = Return("add", call.id, "connect-failed", Null, FALSE)
  /\ UNCHANGED <<config, proto, disk, nfail, sql, othervars>>

\* testConnection resolves true and extractSchema rejects: lines 211-217,
\* 198, 237-239
extractSchemaThrows(call) ==
  /\ BagIn(call, calls)
  /\ calls' = calls (-) SetToBag({call})
  /\ ret' = Return("add", call.id, "schema-failed", Null, FALSE)
  /\ UNCHANGED <<config, proto, disk, nfail, sql, othervars>>

\* testConnection resolves true and extractSchema resolves with s: lines
\* 219-236 run without yielding; when saveConfig throws, the catch of lines
\* 237-239 returns success: false
addConnectionCommit(call, s) ==
  /\ BagIn(call, calls)
  /\ calls' = calls (-) SetToBag({call})
  /\ config' = AddMutation(config, call.id, call.params, s)
  /\ proto' = AddProto(proto, call.id, call.params, s)
  /\ \E w \in saveConfig(AddMutation(config, call.id, call.params, s)) :
       /\ disk' = w.disk
       /\ nfail' = IF w.threw THEN nfail + 1 ELSE nfail
       /\ ret' = IF w.threw
                 THEN Return("add", call.id, "save-failed", Null, FALSE)
                 ELSE Return("add", call.id, "success", s, FALSE)
  /\ UNCHANGED <<sql, othervars>>

\* lines 257-270; when saveConfig throws, the call throws
setActiveConnection(id) ==
  IF ~Has(config, id)
  THEN /\ ret' = Return("setActive", id, "false", Null, FALSE)
       /\ UNCHANGED <<config, proto, disk, calls, nfail, sql, othervars>>
  ELSE /\ config' = SetActiveMutation(config, id)
       /\ \E w \in saveConfig(SetActiveMutation(config, id)) :
            /\ disk' = w.disk
            /\ nfail' = IF w.threw THEN nfail + 1 ELSE nfail
            /\ ret' = Return("setActive", id, IF w.threw THEN "throw" ELSE "true", Null, FALSE)
       /\ UNCHANGED <<proto, calls, sql, othervars>>

\* lines 272-284; when saveConfig throws, the call throws
removeConnection(id) ==
  IF RemoveRefused(config, id)
  THEN /\ ret' = Return("remove", id, "false", Null, FALSE)
       /\ UNCHANGED <<config, proto, disk, calls, nfail, sql, othervars>>
  ELSE /\ config' = RemoveMutation(config, id)
       /\ \E w \in saveConfig(RemoveMutation(config, id)) :
            /\ disk' = w.disk
            /\ nfail' = IF w.threw THEN nfail + 1 ELSE nfail
            /\ ret' = Return("remove", id, IF w.threw THEN "throw" ELSE "true", Null,
                             config.currentConnection = id)
       /\ UNCHANGED <<proto, calls, sql, othervars>>

\* the process is restarted: the suspended calls are gone, getInstance()
\* builds a new service and its constructor runs loadConfig on the file
Restart ==
  /\ disk.kind = "json"
  /\ config' = loadConfig(disk)
  /\ proto' = ObjectPrototype
  /\ calls' = EmptyBag
  /\ ret' = NoReturn
  /\ UNCHANGED <<disk, nfail, sql, othervars>>

Next ==
  \/ \E id \in Ids, p \in Params : addConnection(id, p)
  \/ \E call \in BagToSet(calls) : testConnectionFalse(call)
  \/ \E call \in BagToSet(calls) : extractSchemaThrows(call)
  \/ \E call \in BagToSet(calls), s \in Schemas : addConnectionCommit(call, s)
  \/ \E id \in Ids : setActiveConnection(id)
  \/ \E id \in Ids : removeConnection(id)
  \/ Restart

Spec == Init /\ [][Next]_vars

\* ------------------------------------------------------------ the sessions
\* lines 32-37: getInstance() takes no session and returns the one instance
\* of the process, whose file is CONFIG_PATH, whoever calls
getInstance(session) == [config |-> config, proto |-> proto]

\* what a session sees: its entry of the sessions map, and the active
\* connection, the schema and the connection list the service returns
Observes(session) ==
  LET svc == getInstance(session)
  IN [session |-> sessions[session],
      active |-> getCurrentConnection(svc.config, svc.proto),
      schema |-> getConnectionSchema(svc.config, svc.proto),
      connections |-> svc.config.connections]

\* a session's request makes the service connect, switch or remove
ServiceCall(session) ==
  \/ \E call \in BagToSet(calls), s \in Schemas : addConnectionCommit(call, s)
  \/ \E id \in Ids : setActiveConnection(id)
  \/ \E id \in Ids : removeConnection(id)

\* ------------------------------------------------ generateSQLFromQuery
\* the call runs to `await ai.models.generateContent(...)`, line 181
generateSQLFromQuery(q, s) ==
  /\ sql.pc # "awaiting"
  /\ sql' = [NoCall EXCEPT !.pc = "awaiting", !.query = q, !.schema = s]
  /\ UNCHANGED <<regvars, othervars>>

\* the service answers with a text (response.text || ""): lines 191-209
generateContentResolves(text) ==
  /\ sql.pc = "awaiting"
  /\ sql' = [sql EXCEPT !.pc = "returned", !.text = text, !.tier = "primary",
                        !.result = CleanSQL(text)]
  /\ UNCHANGED <<regvars, othervars>>

\* the service call rejects: lines 210-215, the fallback's result or error
\* is the call's
generateContentRejects ==
  /\ sql.pc = "awaiting"
  /\ LET f == generateFallbackSQL(sql.query, sql.schema)
     IN sql' = [sql EXCEPT !.pc = IF f.threw = "none" THEN "returned" ELSE "threw",
                           !.tier = "fallback", !.result = f.value, !.error = f.threw]
  /\ UNCHANGED <<regvars, othervars>>

SqlNext ==
  \/ \E q \in Questions, s \in SqlSchemas : generateSQLFromQuery(q, s)
  \/ \E text \in Texts : generateContentResolves(text)
  \/ generateContentRejects

SpecSQL == Init /\ [][SqlNext]_vars

\* ------------------------------------------------- the routes' handlers
\* POST /api/connect-db with a body dbConnectionSchema accepts: lines 115-162
connectDb(u, p) ==
  /\ sessions' = [sessions EXCEPT ![u] = Session(p)]
  /\ seen' = [seen EXCEPT ![u] = "connected"]
  /\ reply' = Response("connect-db", u, 200, "connected", Session(p).schema,
                     RouteSuggestions(ADMIN_ACCOUNTS[u]), {}, <<>>, NoResults)
  /\ UNCHANGED <<regvars, sql, kpi, hist, db>>

\* POST /api/connect-db with a body the parse rejects: lines 117, 163-165
connectDbInvalid(u) ==
  /\ reply' = Status("connect-db", u, 400, "Invalid connection data")
  /\ UNCHANGED <<regvars, sql, sessions, seen, kpi, hist, db>>

\* GET /api/schema: lines 169-176
getSchema(u) ==
  /\ reply' = IF ~sessions[u].connected
            THEN Status("schema", u, 400, "No active database connection")
            ELSE Response("schema", u, 200, "", sessions[u].schema, <<>>, {}, <<>>, NoResults)
  /\ UNCHANGED <<regvars, sql, sessions, seen, kpi, hist, db>>

\* POST /api/query-kpi with a body querySchema accepts: lines 179-198
queryKpi(u, q) ==
  /\ reply' = IF ~sessions[u].connected
            THEN Status("query-kpi", u, 400, "No active database connection")
            ELSE Response("query-kpi", u, 200, "", NullSchema, <<>>, q,
                          generateMockSQL(q, ADMIN_ACCOUNTS[u]),
                          generateMockResults(q, ADMIN_ACCOUNTS[u]))
  /\ UNCHANGED <<regvars, sql, sessions, seen, kpi, hist, db>>

\* POST /api/query-kpi with a body the parse rejects: lines 181, 199-201
queryKpiInvalid(u) ==
  /\ reply' = Status("query-kpi", u, 400, "Invalid query")
  /\ UNCHANGED <<regvars, sql, sessions, seen, kpi, hist, db>>

\* logout without the delete of line 208
logoutKeepsSession(u) ==
  /\ seen' = [seen EXCEPT ![u] = "loggedOut"]
  /\ reply' = Status("logout", u, 200, "logged out")
  /\ UNCHANGED <<regvars, sql, sessions, kpi, hist, db>>

\* POST /api/logout: lines 205-211
logout(u) ==
  /\ sessions' = [sessions EXCEPT ![u] = NoSession]
  /\ seen' = [seen EXCEPT ![u] = "loggedOut"]
  /\ reply' = Status("logout", u, 200, "logged out")
  /\ UNCHANGED <<regvars, sql, kpi, hist, db>>

WebNext ==
  \/ \E u \in Users, p \in Params : connectDb(u, p)
  \/ \E u \in Users : connectDbInvalid(u)
  \/ \E u \in Users : getSchema(u)
  \/ \E u \in Users, q \in MockQuestions : queryKpi(u, q)
  \/ \E u \in Users : queryKpiInvalid(u)
  \/ \E u \in Users : logout(u)

SpecWeb == Init /\ [][WebNext]_vars

\* ------------------------------------------------ generateKPISuggestions
\* the call runs to `await ai.models.generateContent(...)`, line 50
generateKPISuggestions(schema, sector) ==
  /\ kpi.pc # "awaiting"
  /\ kpi' = [NoKpiCall EXCEPT !.pc = "awaiting", !.schema = schema, !.sector = sector]
  /\ UNCHANGED <<regvars, sql, sessions, reply, seen, hist, db>>

\* the service answers: lines 59-75, and 76-79 when line 63 or 66 throws
suggestionsResolve(kind, items) ==
  /\ kpi.pc = "awaiting"
  /\ kind = "array" \/ items = <<>>
  /\ LET r == ParseSuggestions(kind, items, kpi.sector)
     IN kpi' = [kpi EXCEPT !.pc = "returned", !.text = kind, !.items = items,
                           !.tier = r.tier, !.result = r.result]
  /\ UNCHANGED <<regvars, sql, sessions, reply, seen, hist, db>>

\* the service call rejects: lines 76-79
suggestionsReject ==
  /\ kpi.pc = "awaiting"
  /\ kpi' = [kpi EXCEPT !.pc = "returned", !.text = "rejected", !.tier = "fallback",
                        !.result = getFallbackSuggestions(kpi.sector)]
  /\ UNCHANGED <<regvars, sql, sessions, reply, seen, hist, db>>

KpiNext ==
  \/ \E schema \in KpiSchemas, sector \in Sectors : generateKPISuggestions(schema, sector)
  \/ /\ kpi.pc = "awaiting"
     /\ \E kind \in TextKinds :
          \E items \in (IF kind = "array" THEN ItemArrays ELSE {<<>>}) :
            suggestionsResolve(kind, items)
  \/ suggestionsReject

SpecKPI == Init /\ [][KpiNext]_vars

\* ------------------------------------------- the fallback translators alone
\* hist keeps, for each of the two translators, its last invocation, and
\* whether the latest invocation had the arguments of the one before it
\* generateFallbackSQL(query, schema) is invoked
callGenerateFallbackSQL(q, s) ==
  /\ hist' = [hist EXCEPT !.fallback = Invocation(<<q, s>>, generateFallbackSQL(q, s)),
                          !.again = hist.fallback.called /\ hist.fallback.args = <<q, s>>]
  /\ UNCHANGED <<regvars, sql, sessions, reply, seen, kpi, db>>

\* generateMockSQL(query, sector) is invoked
callGenerateMockSQL(q, sector) ==
  /\ hist' = [hist EXCEPT !.mock = Invocation(<<q, sector>>,
                                              Returned(generateMockSQL(q, sector))),
                          !.again = hist.mock.called /\ hist.mock.args = <<q, sector>>]
  /\ UNCHANGED <<regvars, sql, sessions, reply, seen, kpi, db>>

\* invocations of the two translators, while the registry changes
FallbackNext ==
  \/ \E q \in Questions, s \in SqlSchemas : callGenerateFallbackSQL(q, s)
  \/ \E q \in MockQuestions : callGenerateMockSQL(q, ADMIN_ACCOUNTS["admin@bank"])
  \/ \E id \in {"default", "a"} : setActiveConnection(id)

SpecFallback == Init /\ [][FallbackNext]_vars

\* ------------------------------------------ testConnection, extractSchema
\* a new call: new Pool(...), then the call runs to `await pool.connect()`.
\* The record of a call: where it waits, its client, its pool, the catalog
\* of the database once known, the rows of the tables query and how many of
\* them are done, what it returned, and in before the snapshot of the
\* extractSchema that returned last.
NewDbCall(op) ==
  [op |-> op, pc |-> "connect", client |-> "none", pool |-> "open",
   known |-> IF db.pc = "idle" THEN FALSE ELSE db.known,
   catalog |-> IF db.pc = "idle" THEN {} ELSE db.catalog,
   rows |-> <<>>, done |-> 0, tables |-> <<>>, outcome |-> "none",
   result |-> NoSnapshot,
   before |-> IF db.pc = "idle" THEN [called |-> FALSE, result |-> NoSnapshot]
              ELSE IF db.op = "extract" /\ db.pc = "returned"
              THEN [called |-> TRUE, result |-> db.result]
              ELSE db.before]

\* lines 74-92
testConnection ==
  /\ Finished(db)
  /\ db' = NewDbCall("test")
  /\ UNCHANGED <<regvars, sql, sessions, reply, kpi, hist, seen>>

\* lines 104-121, against the database whose catalog is cat; the catalog
\* does not change afterwards
extractSchema(cat) ==
  /\ Finished(db)
  /\ IF db.pc = "idle" THEN TRUE ELSE ~db.known \/ db.catalog = cat
  /\ db' = [NewDbCall("extract") EXCEPT !.known = TRUE, !.catalog = cat]
  /\ UNCHANGED <<regvars, sql, sessions, reply, kpi, hist, seen>>

\* pool.connect() resolves with a client: lines 92-93 and 121-133
poolConnectResolves ==
  /\ db.pc = "connect"
  /\ db' = [db EXCEPT !.client = "acquired",
                      !.pc = IF db.op = "test" THEN "select1" ELSE "tables"]
  /\ UNCHANGED <<regvars, sql, sessions, reply, kpi, hist, seen>>

\* pool.connect() rejects: the catch of lines 97-99 and 195-197 runs to
\* `await pool.end()`
poolConnectRejects ==
  /\ db.pc = "connect"
  /\ db' = [db EXCEPT !.pc = "endCatch"]
  /\ UNCHANGED <<regvars, sql, sessions, reply, kpi, hist, seen>>

\* line 88, connectionTimeoutMillis: 5000: the pool of testConnection
\* rejects pool.connect() when no client is there after five seconds; the
\* pool of extractSchema (lines 111-118) sets no such time
connectTimeout ==
  /\ db.op = "test" /\ db.pc = "connect"
  /\ db' = [db EXCEPT !.pc = "endCatch"]
  /\ UNCHANGED <<regvars, sql, sessions, reply, kpi, hist, seen>>

\* SELECT 1 resolves: lines 93-95
selectResolves ==
  /\ db.pc = "select1"
  /\ db' = [db EXCEPT !.client = "released", !.pc = "end"]
  /\ UNCHANGED <<regvars, sql, sessions, reply, kpi, hist, seen>>

\* the tables query resolves with rows: lines 133-155, and 172-173 when
\* there is no row
tablesResolve(rows) ==
  /\ db.pc = "tables"
  /\ db' = IF rows = <<>>
           THEN [db EXCEPT !.rows = rows, !.client = "released", !.pc = "end"]
           ELSE [db EXCEPT !.rows = rows, !.pc = "columns"]
  /\ UNCHANGED <<regvars, sql, sessions, reply, kpi, hist, seen>>

\* the columns query of the next row resolves: lines 155-170, then the
\* query of the row after it, or lines 172-173 after the last row
columnsResolve ==
  /\ db.pc = "columns"
  /\ LET pushed == Append(db.tables, RawTable(db.catalog, db.rows[db.done + 1]))
     IN db' = IF db.done + 1 = Len(db.rows)
              THEN [db EXCEPT !.tables = pushed, !.done = db.done + 1,
                              !.client = "released", !.pc = "end"]
              ELSE [db EXCEPT !.tables = pushed, !.done = db.done + 1]
  /\ UNCHANGED <<regvars, sql, sessions, reply, kpi, hist, seen>>

\* a client.query(...) rejects: the catch of lines 97-99 and 195-197 runs
\* to `await pool.end()`; client is a const of the try block, nothing
\* releases it
queryRejects ==
  /\ db.pc \in {"select1", "tables", "columns"}
  /\ db' = [db EXCEPT !.pc = "endCatch"]
  /\ UNCHANGED <<regvars, sql, sessions, reply, kpi, hist, seen>>

\* pool.end() resolves: lines 95-96 and 173-194 after the try block, lines
\* 99-100 and 197-198 in the catch.  Whether the pool's end resolves while
\* a client is checked out is the pool's matter; the step is never forced.
poolEndResolves ==
  /\ db.pc \in {"end", "endCatch"}
  /\ db' = IF db.pc = "end"
           THEN [db EXCEPT !.pool = "ended", !.pc = "returned",
                           !.outcome = IF db.op = "test" THEN "true" ELSE "snapshot",
                           !.result = IF db.op = "test" THEN NoSnapshot
                                      ELSE Snapshot(db.tables)]
           ELSE [db EXCEPT !.pool = "ended",
                           !.pc = IF db.op = "test" THEN "returned" ELSE "threw",
                           !.outcome = IF db.op = "test" THEN "false" ELSE "Error"]
  /\ UNCHANGED <<regvars, sql, sessions, reply, kpi, hist, seen>>

DbNext ==
  \/ testConnection
  \/ \E cat \in Catalogs : extractSchema(cat)
  \/ poolConnectResolves
  \/ poolConnectRejects
  \/ connectTimeout
  \/ selectResolves
  \/ db.pc = "tables" /\ \E rows \in TableRows(db.catalog) : tablesResolve(rows)
  \/ columnsResolve
  \/ queryRejects
  \/ poolEndResolves

SpecDb == Init /\ [][DbNext]_vars

\* ------------------------------------------------- the calls that wait
\* every call to an external party, with the steps the code itself
\* schedules: the answers of the text-generation service and of the
\* database may never come, the timer of line 88 fires, and a pool.end()
\* with no client checked out resolves
LiveNext ==
  \/ DbNext
  \/ generateSQLFromQuery({"salary"}, MockSchema)
  \/ generateContentResolves(<<"SELECT">>)
  \/ generateContentRejects
  \/ generateKPISuggestions(NullSchema, "bank")
  \/ suggestionsResolve("none", <<>>)
  \/ suggestionsReject

SpecLive ==
  /\ Init /\ [][LiveNext]_vars
  /\ WF_vars(connectTimeout)
  /\ WF_vars(poolEndResolves /\ db.client # "acquired")

\* ------------------------------------------------------------- the claims
\* what a step of addConnection does to the bag of suspended calls
CallStarts == BagCardinality(calls') > BagCardinality(calls)
CallFails ==
  /\ BagCardinality(calls') < BagCardinality(calls)
  /\ ret'.op = "add" /\ ret'.res \in {"connect-failed", "schema-failed"}

\* C1: after any interleaving of addConnection, setActiveConnection and
\* removeConnection, at most one record of config.connections has
\* isActive = true.
C1_AtMostOneActive == Cardinality(ActiveKeys(config)) <= 1

\* an addConnection has committed while another call was suspended, three
\* records exist and one is active
C1_Witness ==
  /\ ret.op = "add" /\ ret.res = "success" /\ calls # EmptyBag
  /\ Cardinality(Keys(config)) >= 3 /\ Cardinality(ActiveKeys(config)) = 1

\* C2: the record "default" exists in every reachable state, in memory and
\* in whatever a construction would load from the file; no call removes it.
C2_DefaultPresent == "default" \in Keys(config) /\ "default" \in Keys(loadConfig(disk))

\* a removeConnection has succeeded
C2_Witness ==
  /\ ret.op = "remove" /\ ret.res = "true" /\ ret.id = "a"
  /\ Keys(config) = {"default"}

\* C3: every string generateSQLFromQuery returns begins with SELECT.
C3_StartsWithSelect ==
  sql.pc = "returned" => Len(sql.result) > 0 /\ sql.result[1] = "SELECT"

\* C4: no string generateSQLFromQuery returns contains a data-mutating
\* keyword.
C4_NoMutatingKeyword == sql.pc = "returned" => Range(sql.result) \cap Mutating = {}

\* C5: an addConnection that fails because testConnection returns false or
\* extractSchema throws leaves the registry unchanged: none of its steps
\* (the call, the failed return) changes the records, the active flags,
\* currentConnection or the file, and the call returns success = false.
C5_FailedAddChangesNothing ==
  [][(CallStarts \/ CallFails)
       => config' = config /\ proto' = proto /\ disk' = disk]_vars

\* addConnection("a") has failed on the connection test and no record "a"
\* exists
C5_Witness ==
  /\ ret.op = "add" /\ ret.res = "connect-failed" /\ ret.id = "a"
  /\ "a" \notin Keys(config) /\ config = loadConfig(disk)

\* C6: when saving fails inside addConnection, setActiveConnection or
\* removeConnection, the in-memory registry is restored, so that it equals
\* the last successfully persisted state.
C6_SaveFailureRollsBack ==
  ret.res \in {"save-failed", "throw"} => config = loadConfig(disk)

\* C7: a removeConnection(id) that succeeds on the active record leaves
\* "default" active (isActive = true, currentConnection = "default");
\* on a record that is not active it leaves the active connection unchanged.
C7_RemoveActiveFallsBack ==
  [][\A id \in Ids :
       (/\ ret'.op = "remove" /\ ret'.id = id /\ ret'.res = "true"
        /\ id \in Keys(config) /\ removeConnection(id))
         => IF config.connections[id].isActive
            THEN /\ config'.currentConnection = "default"
                 /\ ActiveKeys(config') = {"default"}
            ELSE /\ config'.currentConnection = config.currentConnection
                 /\ ActiveKeys(config') = ActiveKeys(config)]_vars

\* the active record "a" has been removed and "default" is active
C7_Witness ==
  /\ ret = Return("remove", "a", "true", Null, TRUE)
  /\ config.currentConnection = "default" /\ ActiveKeys(config) = {"default"}

\* C8: removeConnection("default") returns false and leaves the registry,
\* in memory and in the file, unchanged, whatever the state.
C8_RemoveDefaultRefused ==
  [][removeConnection("default")
       => /\ ret' = Return("remove", "default", "false", Null, FALSE)
          /\ config' = config /\ proto' = proto /\ disk' = disk]_vars

\* removeConnection("default") has been refused while "default" was the
\* active one of several records
C8_Witness ==
  /\ ret.op = "remove" /\ ret.id = "default" /\ ret.res = "false"
  /\ config.currentConnection = "default" /\ Cardinality(Keys(config)) >= 2

\* C9: when addConnection(id, params) succeeds, the record for id exists
\* with isActive = true, the extracted schema and a non-null lastConnected,
\* every other record is inactive, currentConnection = id and the schema
\* returned is the one stored.
C9_AddSuccessPostcondition ==
  (ret.op = "add" /\ ret.res = "success")
    => /\ ret.id \in Keys(config)
       /\ config.connections[ret.id].isActive
       /\ config.connections[ret.id].schema = ret.schema
       /\ ret.schema \in Schemas
       /\ config.connections[ret.id].lastConnected # Null
       /\ ActiveKeys(config) = {ret.id}
       /\ config.currentConnection = ret.id

\* C10: setActiveConnection(id) fails and changes nothing when id is not in
\* the registry; otherwise exactly the record id is active afterwards and
\* currentConnection = id.
C10_SetActive ==
  [][\A id \in Ids :
       setActiveConnection(id)
         => IF id \notin Keys(config)
            THEN ret'.res = "false" /\ config' = config /\ proto' = proto /\ disk' = disk
            ELSE ActiveKeys(config') = {id} /\ config'.currentConnection = id]_vars

\* C11: whenever addConnection, setActiveConnection or removeConnection has
\* returned success, the file holds the registry that is in memory: the
\* same currentConnection, the same records, and nothing in memory that the
\* file lacks; with overlapping addConnection calls too.
C11_StoreEqualsRegistry ==
  ret.res \in {"success", "true"}
    => /\ config = loadConfig(disk)
       /\ getCurrentConnection(config, proto)
            = getCurrentConnection(loadConfig(disk), ObjectPrototype)

\* the text begins with the keyword
StartsWithSelect(text) == Len(text) > 0 /\ text[1] = "SELECT"

\* C12: generateSQLFromQuery returns the primary tier's text only when the
\* cleaned text starts with SELECT; when the service call throws, returns
\* no text or a text that does not, the outcome is generateFallbackSQL's.
C12_FallbackUnlessSelect ==
  sql.pc \in {"returned", "threw"}
    => IF StartsWithSelect(CleanSQL(sql.text))
       THEN sql.tier = "primary" /\ sql.result = CleanSQL(sql.text)
       ELSE /\ sql.tier = "fallback"
            /\ [threw |-> sql.error, value |-> sql.result]
                 = generateFallbackSQL(sql.query, sql.schema)

C14_ErrorOnlyWithoutTables ==
  sql.pc \in {"returned", "threw"}
    => /\ sql.error \in {"none", "Error"}
       /\ sql.pc = "threw" <=> (sql.tier = "fallback" /\ Len(sql.schema.tables) = 0)

\* the query text groups by the column
GroupsBy(text, col) ==
  \E i \in 1..(Len(text) - 1) : text[i] = "GROUP BY" /\ text[i + 1] = col

\* C15: for a question that contains "salary", asked against a schema with
\* an employees table, the fallback tier returns an aggregate query with
\* GROUP BY department.
C15_SalaryGroupsByDepartment ==
  (/\ sql.pc \in {"returned", "threw"} /\ sql.tier = "fallback"
   /\ "salary" \in sql.query /\ "employees" \in TableNames(sql.schema))
    => sql.pc = "returned" /\ GroupsBy(sql.result, "department")

\* C15, at the query endpoint: a question that contains "salary" is answered
\* with generateMockSQL's GROUP BY department query and a bar chart.
C15_EndpointSalary ==
  (reply.route = "query-kpi" /\ reply.status = 200 /\ "salary" \in reply.query)
    => GroupsBy(reply.sql_query, "department") /\ reply.results.chart_data.type = "bar"

\* the query text buckets by date and keeps the last 30 days
DateBucketed30(text) ==
  /\ GroupsBy(text, "DATE(transaction_date)")
  /\ "transaction_date >= NOW() - INTERVAL '30 days'" \in Range(text)

\* C16: a question that contains "transaction" and "volume", whatever else
\* it contains, is answered with a date-bucketed aggregate over the last 30
\* days and an envelope whose chart kind is "line".
C16_TransactionVolumeLine ==
  (/\ reply.route = "query-kpi" /\ reply.status = 200
   /\ {"transaction", "volume"} \subseteq reply.query)
    => DateBucketed30(reply.sql_query) /\ reply.results.chart_data.type = "line"

\* C16, for generateFallbackSQL: the same questions get a date-bucketed query.
C16_FallbackTransactionVolume ==
  (/\ sql.pc \in {"returned", "threw"} /\ sql.tier = "fallback"
   /\ {"transaction", "volume"} \subseteq sql.query /\ Len(sql.schema.tables) > 0)
    => DateBucketed30(sql.result)

\* C16, as far as it holds at the endpoint: the questions with "transaction"
\* or "volume" and neither "salary" nor "employee".
C16_EndpointSecondRule ==
  (/\ reply.route = "query-kpi" /\ reply.status = 200
   /\ reply.query \cap {"transaction", "volume"} # {}
   /\ reply.query \cap {"salary", "employee"} = {})
    => DateBucketed30(reply.sql_query) /\ reply.results.chart_data.type = "line"

\* no id occurs twice in the list
DistinctIds(list) == \A i, j \in 1..Len(list) : list[i] = list[j] => i = j

\* C17: every list generateKPISuggestions returns, from the service's answer
\* or from the fallback, has 6 to 8 elements and no two with the same id.
C17_SixToEightDistinct ==
  kpi.pc = "returned"
    => Len(kpi.result) >= 6 /\ Len(kpi.result) <= 8 /\ DistinctIds(kpi.result)

\* the id of the generic suggestion for a table: `${tableName}_summary`
SummaryId(name) == IF name = "loans" THEN "loans_summary" ELSE "table_summary"
TableSummaries(s) == [i \in 1..Len(s.tables) |-> SummaryId(s.tables[i].name)]

\* C18: when the primary tier fails, generateKPISuggestions returns the
\* first 8 elements of the sector's fixed list followed by one summary
\* suggestion per table of the schema; without tables that is the fixed
\* list, which is not empty.
C18_FallbackListWithSummaries ==
  (kpi.pc = "returned" /\ kpi.tier = "fallback")
    => /\ kpi.result = Take(getFallbackSuggestions(kpi.sector) \o TableSummaries(kpi.schema), 8)
       /\ kpi.result # <<>>

\* C19: in every envelope the query endpoint returns, row_count is the
\* number of rows of table_data, and every key of every point of
\* chart_data.data, xAxis and yAxis are among columns.
C19_EnvelopeConsistent ==
  (reply.route = "query-kpi" /\ reply.status = 200)
    => LET e == reply.results
           cols == Range(e.columns)
       IN /\ e.row_count = Len(e.table_data)
          /\ \A i \in 1..Len(e.chart_data.data) : DOMAIN e.chart_data.data[i] \subseteq cols
          /\ e.chart_data.xAxis \in cols /\ e.chart_data.yAxis \in cols

\* the endpoint has answered a question of the third branch with its five
\* rows and its pie chart
C19_Witness ==
  /\ reply.route = "query-kpi" /\ reply.status = 200
  /\ reply.query = {"department", "count"}
  /\ reply.results.chart_data.type = "pie" /\ reply.results.row_count = 5
  /\ Len(reply.results.chart_data.data) = 5

\* C20: what one session does never changes what another session observes:
\* when session a connects, switches or removes a connection, the active
\* connection, the schema and the connection list of every other session b
\* stay as they were.
C20_SessionsIsolated ==
  [][\A a, b \in Users :
       (a # b /\ ServiceCall(a)) => Observes(b)' = Observes(b)]_vars

\* C20, for the sessions map of the routes: a request of one user leaves the
\* entry of every other user unchanged.
C20_RoutesIsolated ==
  [][\A a, b \in Users :
       (a # b /\ ((\E p \in Params : connectDb(a, p)) \/ logout(a)))
         => sessions'[b] = sessions[b]]_vars

C22_EventuallyReturns ==
  /\ (sql.pc = "awaiting") ~> (sql.pc # "awaiting")
  /\ (kpi.pc = "awaiting") ~> (kpi.pc # "awaiting")
  /\ (~Finished(db)) ~> Finished(db)

\* C22, what the timer of line 88 gives: a testConnection that waits for
\* pool.connect() does not wait there for ever.
C22_ConnectOfTestBounded ==
  (db.op = "test" /\ db.pc = "connect") ~> ~(db.op = "test" /\ db.pc = "connect")
\* C23: when testConnection or extractSchema returns or throws, the client
\* it acquired, if any, is released and its pool is ended, on every path.
C23_ClientReleasedPoolEnded ==
  (db.pc \in {"returned", "threw"}) => db.client # "acquired" /\ db.pool = "ended"

\* C23, on the paths where it holds: the pool is ended on every path, and
\* the client is released when every query resolved.
C23_ReleasedUnlessQueryFailed ==
  (db.pc \in {"returned", "threw"})
    => /\ db.pool = "ended"
       /\ db.outcome \in {"true", "snapshot"} => db.client = "released"
\* the names of the tables of the catalog, and whether two of its tables
\* have the same name
CatalogNames(cat) == {tb.table_name : tb \in cat}
Homonyms(cat) == Cardinality(CatalogNames(cat)) < Cardinality(cat)

\* the names of the sequence ascend
Ascending(list) ==
  \A i, j \in 1..Len(list) : i < j => NameRank(list[i].name) <= NameRank(list[j].name)

\* C24: an extractSchema that returns after an earlier extractSchema
\* returned, against the same unchanged catalog, returns the same tables in
\* the same order, table name ascending, with the same columns and column
\* descriptions; also when two database schemas have a table of one name.
C24_StableSnapshot ==
  (db.op = "extract" /\ db.pc = "returned" /\ db.before.called)
    => /\ db.result.tables = db.before.result.tables
       /\ db.result.rawTables = db.before.result.rawTables
       /\ Ascending(db.result.tables)

\* C24, for the catalogs in which no two tables have the same name.
C24_StableWithoutHomonyms ==
  (db.op = "extract" /\ db.pc = "returned" /\ db.before.called /\ ~Homonyms(db.catalog))
    => /\ db.result.tables = db.before.result.tables
       /\ db.result.rawTables = db.before.result.rawTables
       /\ Ascending(db.result.tables)

\* the text from its first SELECT on, without fence markers and without
\* spaces at its ends
FromFirstSelect(text) ==
  LET at == {i \in 1..Len(text) : IsSelect(text[i])}
      p == CHOOSE i \in at : \A j \in at : i <= j
  IN Trim(SelectSeq(SubSeq(text, p, Len(text)), LAMBDA tok : tok # Fence))

\* C25: for every text of the service that contains SELECT, whatever
\* precedes it, the primary tier returns the text from its first SELECT on,
\* without code-fence markers.
C25_CleanedFromFirstSelect ==
  (sql.pc = "returned" /\ sql.tier = "primary" /\ \E i \in 1..Len(sql.text) : IsSelect(sql.text[i]))
    => /\ Len(sql.result) > 0 /\ IsSelect(sql.result[1])
       /\ Tail(sql.result) = Tail(FromFirstSelect(sql.text))

\* C25, for the texts in which nothing before the first SELECT has the
\* letter s and no fence follows it: the result starts at that SELECT.
C25_CleanedWithoutS ==
  (/\ sql.pc = "returned" /\ sql.tier = "primary"
   /\ \E i \in 1..Len(sql.text) :
        /\ IsSelect(sql.text[i])
        /\ \A j \in 1..(i - 1) : ~HasS(sql.text[j])
        /\ \A j \in (i + 1)..Len(sql.text) : sql.text[j] # Fence)
    => /\ Len(sql.result) > 0 /\ sql.result[1] = "SELECT"
       /\ Tail(sql.result) = Tail(FromFirstSelect(sql.text))
\* the rules the claims name: the keywords that must all occur, the table
\* that must be present and the select list of the template; a test of one
\* keyword or another is one rule for each
Rule(keys, table, select) == [keys |-> keys, table |-> table, select |-> select]

FallbackRules ==
  <<Rule({"total", "loan"}, "loans",
         "SUM(loan_amount) as total_loan_amount, COUNT(*) as total_loans"),
    Rule({"customer", "count"}, "customers", "COUNT(*) as customer_count"),
    Rule({"payment"}, "payments",
         "SUM(amount_paid) as total_payments, COUNT(*) as payment_count"),
    Rule({"transaction"}, "payments",
         "SUM(amount_paid) as total_payments, COUNT(*) as payment_count"),
    Rule({"loan", "type"}, "loans",
         "loan_type, COUNT(*) as loan_count, AVG(loan_amount) as avg_amount")>>

MockRules ==
  <<Rule({"salary"}, "employees",
         "department, AVG(salary) as avg_salary, COUNT(*) as employee_count"),
    Rule({"employee"}, "employees",
         "department, AVG(salary) as avg_salary, COUNT(*) as employee_count"),
    Rule({"transaction"}, "transactions",
         "DATE(transaction_date) as date, SUM(amount) as total_amount, COUNT(*) as transaction_count"),
    Rule({"volume"}, "transactions",
         "DATE(transaction_date) as date, SUM(amount) as total_amount, COUNT(*) as transaction_count"),
    Rule({"department"}, "employees", "department, COUNT(*) as employee_count"),
    Rule({"count"}, "employees", "department, COUNT(*) as employee_count")>>

\* the keys of schema.tables
SchemaKeys(s) == {s.tables[i].name : i \in 1..Len(s.tables)}

\* the first rule whose keywords all occur in the question and whose table
\* the schema has; 0 when there is none
FirstRule(rules, q, s) ==
  LET fit == {i \in 1..Len(rules) : rules[i].keys \subseteq q /\ rules[i].table \in SchemaKeys(s)}
  IN IF fit = {} THEN 0 ELSE CHOOSE i \in fit : \A j \in fit : i <= j

\* the table the query reads
FromTable(text) == text[(CHOOSE i \in 1..Len(text) : text[i] = "FROM") + 1]

\* the text is what the first fitting rule gives, and reads a table of s
ByFirstRule(rules, q, s, text) ==
  /\ "FROM" \in Range(text)
  /\ FromTable(text) \in SchemaKeys(s)
  /\ IF FirstRule(rules, q, s) = 0
     THEN \A i \in 1..Len(rules) : text[2] # rules[i].select
     ELSE /\ text[2] = rules[FirstRule(rules, q, s)].select
          /\ FromTable(text) = rules[FirstRule(rules, q, s)].table

\* C26: a fallback translator returns the template of the first rule, in
\* the fixed order, whose keywords all occur in the question and whose table
\* the schema has; every query it returns reads a table of the schema.
C26_FirstRuleWins ==
  /\ (hist.fallback.called /\ hist.fallback.result.threw = "none")
       => ByFirstRule(FallbackRules, hist.fallback.args[1], hist.fallback.args[2],
                      hist.fallback.result.value)
  /\ hist.mock.called
       => ByFirstRule(MockRules, hist.mock.args[1], MockSchema, hist.mock.result.value)

\* generateFallbackSQL was asked for the total and the types of the loans
\* with a loans table and gave the first rule's query, and generateMockSQL
\* was asked a question of its second and third rule
C26_Witness ==
  /\ hist.fallback.called /\ hist.fallback.args[1] = {"total", "loan", "type"}
  /\ FirstRule(FallbackRules, hist.fallback.args[1], hist.fallback.args[2]) = 1
  /\ FromTable(hist.fallback.result.value) = "loans"
  /\ hist.mock.called /\ hist.mock.args[1] = {"volume", "department"}
  /\ FromTable(hist.mock.result.value) = "transactions"
\* the columns the query lists, between SELECT and FROM
ListedColumns(text) ==
  SubSeq(text, 2, (CHOOSE i \in 1..Len(text) : text[i] = "FROM") - 1)

\* the fallback tier was asked a question no rule applies to, with a schema
\* of at least one table
NoRuleApplies ==
  /\ sql.pc \in {"returned", "threw"} /\ sql.tier = "fallback"
  /\ Len(sql.schema.tables) > 0
  /\ FirstRule(FallbackRules, sql.query, sql.schema) = 0

\* C27: when no rule applies and the schema has a table, generateFallbackSQL
\* returns a query on the first table of the schema that lists between 1
\* and 5 of its columns, the first min(5, n) in schema order, and has a
\* LIMIT.
C27_DefaultQuery ==
  NoRuleApplies
    => /\ sql.pc = "returned" /\ StartsWithSelect(sql.result)
       /\ "FROM" \in Range(sql.result) /\ "LIMIT" \in Range(sql.result)
       /\ FromTable(sql.result) = sql.schema.tables[1].name
       /\ Len(ListedColumns(sql.result)) \in 1..5
       /\ ListedColumns(sql.result) = Take(sql.schema.tables[1].columns, 5)

\* C27, with a first table of at least one column.
C27_DefaultQueryWithColumns ==
  (NoRuleApplies /\ Len(sql.schema.tables[1].columns) > 0)
    => /\ sql.pc = "returned" /\ StartsWithSelect(sql.result)
       /\ "FROM" \in Range(sql.result) /\ "LIMIT" \in Range(sql.result)
       /\ FromTable(sql.result) = sql.schema.tables[1].name
       /\ Len(ListedColumns(sql.result)) \in 1..5
       /\ ListedColumns(sql.result) = Take(sql.schema.tables[1].columns, 5)
\* the record k of c is in d with the same connection parameters, schema
\* and lastConnected
Kept(c, d, k) ==
  /\ k \in Keys(d)
  /\ d.connections[k].params = c.connections[k].params
  /\ d.connections[k].schema = c.connections[k].schema
  /\ d.connections[k].lastConnected = c.connections[k].lastConnected

\* from c to d no record is deleted, and every record other than id is
\* kept; its isActive flag is as it was, or cleared.  A step that leaves
\* the records as they are is the first case.
KeepsOthers(c, d, id) ==
  \/ d.connections = c.connections
  \/ /\ id \in Keys(c) => id \in Keys(d)
     /\ \A k \in Keys(c) :
          k # id => /\ Kept(c, d, k)
                    /\ d.connections[k].isActive => c.connections[k].isActive

\* from c to d no record other than id is deleted, and every other record
\* is as it was, but for the isActive flag of "default"
RemovesOnly(c, d, id) ==
  \/ d.connections = c.connections
  \/ \A k \in Keys(c) :
       k # id => /\ Kept(c, d, k)
                 /\ k # "default" => d.connections[k].isActive = c.connections[k].isActive

\* C28: every step of addConnection(id) and setActiveConnection(id) deletes
\* no record and leaves the parameters, the schema and lastConnected of
\* every record other than id unchanged, clearing at most its isActive;
\* removeConnection(id) leaves every record other than id unchanged, but
\* for the isActive of "default".  The steps are told by the bag of
\* suspended calls and the last return: a call of addConnection adds to the
\* bag, its return takes from it, and setActiveConnection and
\* removeConnection return at once and leave the bag as it is.
C28_OnlyRemoveDestroys ==
  [][/\ CallStarts => \A id \in Ids : KeepsOthers(config, config', id)
     /\ (ret'.op = "add" /\ calls' # calls /\ ~CallStarts)
          => KeepsOthers(config, config', ret'.id)
     /\ (ret'.op = "setActive" /\ calls' = calls)
          => KeepsOthers(config, config', ret'.id)
     /\ (ret'.op = "remove" /\ calls' = calls)
          => RemovesOnly(config, config', ret'.id)]_vars

\* "default" was made active while the record "a", added before, is kept
\* with its schema and its lastConnected, no longer active
C28_Witness ==
  /\ ret.op = "setActive" /\ ret.id = "default" /\ ret.res = "true"
  /\ "a" \in Keys(config)
  /\ config.connections["a"].schema \in Schemas
  /\ config.connections["a"].lastConnected = Now
  /\ ~config.connections["a"].isActive
\* C29: in every reachable state currentConnection is null or the id of a
\* record, a record is active exactly when its id is currentConnection, and
\* getCurrentConnection returns that record, or null exactly when no record
\* is active.
C29_PointerAgreesWithFlags ==
  /\ config.currentConnection = Null \/ config.currentConnection \in Keys(config)
  /\ \A k \in Keys(config) : config.connections[k].isActive <=> k = config.currentConnection
  /\ getCurrentConnection(config, proto)
       = IF ActiveKeys(config) = {}
         THEN [kind |-> "null", rec |-> DefaultRecord]
         ELSE [kind |-> "record",
               rec |-> config.connections[CHOOSE k \in ActiveKeys(config) : TRUE]]

\* C30: a snapshot extractSchema returns has one entry of tables for every
\* table of the catalog, with that table's columns, and totalTables is the
\* number of entries; also when two database schemas have a table of one
\* name.
C30_NoTableLost ==
  (db.op = "extract" /\ db.pc = "returned")
    => /\ db.result.totalTables = Len(db.result.tables)
       /\ \A tb \in db.catalog :
            \E i \in 1..Len(db.result.tables) :
              /\ db.result.tables[i].name = tb.table_name
              /\ db.result.tables[i].columns
                   = [k \in 1..Len(tb.columns) |-> MapColumn(tb.columns[k])]

\* C30, for the catalogs in which no two tables have the same name.
C30_NoTableLostWithoutHomonyms ==
  (db.op = "extract" /\ db.pc = "returned" /\ ~Homonyms(db.catalog))
    => /\ db.result.totalTables = Len(db.result.tables)
       /\ \A tb \in db.catalog :
            \E i \in 1..Len(db.result.tables) :
              /\ db.result.tables[i].name = tb.table_name
              /\ db.result.tables[i].columns
                   = [k \in 1..Len(tb.columns) |-> MapColumn(tb.columns[k])]

====
